---- MODULE Spec2Model ----
(***************************************************************************)
(* The event-purge pipeline of msgraph-calendar-cleaner: one run of one of *)
(* the three command-line programs of the repository                       *)
(*   "msgraph"  src/msgraph_cleaner.py  (class CalendarCleaner)            *)
(*   "google"   src/google_cleaner.py   (class GoogleCalendarCleaner)      *)
(*   "legacy"   src/cleaner.py          (the script the class grew from)   *)
(* from its command line to its exit: argument checks, --clean, timezone   *)
(* and time parsing, authentication, the listing loop, the semaphore-      *)
(* bounded deletion tasks and (legacy only) the sequential deletion loop.  *)
(***************************************************************************)
EXTENDS Integers, Sequences, FiniteSets, Bags, TLC

VARIABLES
    variant,      \* which program runs
    args,         \* the parsed command line: [clean, start, end, timezone]
    provider,     \* the calendar behind the API: [total, pagecap]
    tokenFile,    \* the persisted credential cache file exists
    pc,           \* position of main()
    exitCode,     \* process exit status, NoExit while running
    timezone,     \* the pytz timezone object (its name), NoTimezone before
    window,       \* <<start_time, end_time>> in UTC minutes, NoValue before
    events,       \* the accumulator of fetch_events / the returned batch
    next_link,    \* the continuation cursor (page number), None when absent
    tpc,          \* position of each delete_event task, by index in events
    sem,          \* asyncio.Semaphore._value
    waiters,      \* asyncio.Semaphore._waiters (FIFO of task indices)
    seqIdx,       \* legacy: index of the sequential deletion loop
    printed,      \* stdout: the bag of outcome lines printed
    authCalls,    \* authentication requests made
    listCalls,    \* listing requests made
    listWindows,  \* the windows the listing requests were made with
    listErrors,   \* listing responses with a non-success status
    responses,    \* bag of [id, status]: the delete responses the provider gave
    deleteReqs,   \* bag of event ids: delete requests issued per event
    cacheCleared  \* the --clean branch removed the credential cache file

vars == <<variant, args, provider, tokenFile, pc, exitCode, timezone, window,
          events, next_link, tpc, sem, waiters, seqIdx, printed, authCalls,
          listCalls, listWindows, listErrors, responses, deleteReqs,
          cacheCleared>>

----------------------------------------------------------------------------
(* Program constants *)

\* asyncio.Semaphore(3)
SemaphoreSize == 3
\* if len(events) > 9500
EnumerationCap == 9500
\* $top=500 of the Graph calendarview request
GraphTop == 500
\* maxResults=2500 of the Google events.list request
GoogleMaxResults == 2500
\* response.status == 204
NoContent == 204

(* Bounds of the model *)

\* largest batch whose deletion tasks are followed one by one
MaxBatch == 4
\* largest number of full Graph pages a big calendar holds
MaxBigPages == 21

----------------------------------------------------------------------------
(* Values *)

None == 0
NoValue == << >>
NoExit == -1
NoTimezone == ""
Variants == {"msgraph", "google", "legacy"}

\* A --start/--end string "YYYY-MM-DD HH:MM" is the tuple of its five number
\* fields; NoValue is an absent (or empty) argument.
DateStrings ==
    { <<2023, 1, 1, 0, 0>>,      \* "2023-01-01 00:00"
      <<2023, 1, 2, 0, 0>>,      \* "2023-01-02 00:00"
      <<2023, 13, 40, 99, 99>> } \* "2023-13-40 99:99"
TimezoneNames == {"UTC", "Europe/Helsinki", "Mars/Olympus"}

\* delete statuses the provider answers with
DeleteStatuses == {204, 404}
\* listing statuses the provider answers with
ListStatuses == {200, 500}

Min(a, b) == IF a <= b THEN a ELSE b

----------------------------------------------------------------------------
(* The command line *)

\* argparse: --start, --end, --timezone (default Europe/Helsinki), --clean
ArgSets ==
    [clean : BOOLEAN, start : DateStrings \cup {NoValue},
     end : DateStrings \cup {NoValue}, timezone : TimezoneNames]

\* "not args.start": the argument is absent or the empty string
Missing(arg) == arg = NoValue

----------------------------------------------------------------------------
(* Time-window resolution *)

\* pytz.timezone(name) raises UnknownTimeZoneError for a name it does not know
KnownTimezones == {"UTC", "Europe/Helsinki"}

IsLeap(y) == (y % 4 = 0) /\ ((y % 100 # 0) \/ (y % 400 = 0))

DaysInMonth(y, m) ==
    IF m = 2 THEN (IF IsLeap(y) THEN 29 ELSE 28)
    ELSE IF m \in {4, 6, 9, 11} THEN 30 ELSE 31

\* a parser that takes any five numbers
WellFormed_any(s) == s # NoValue

\* datetime.strptime(s, '%Y-%m-%d %H:%M') raises ValueError unless every field
\* is in its range
WellFormed(s) ==
    /\ s # NoValue
    /\ s[1] \in 1..9999
    /\ s[2] \in 1..12
    /\ s[3] \in 1..DaysInMonth(s[1], s[2])
    /\ s[4] \in 0..23
    /\ s[5] \in 0..59

RECURSIVE DaysBeforeMonth(_, _)
DaysBeforeMonth(y, m) ==
    IF m = 1 THEN 0 ELSE DaysBeforeMonth(y, m - 1) + DaysInMonth(y, m - 1)

\* the naive datetime as minutes since 0001-01-01 00:00 (proleptic Gregorian)
NaiveMinutes(s) ==
    LET y == s[1] - 1
        days == y * 365 + (y \div 4) - (y \div 100) + (y \div 400)
                + DaysBeforeMonth(s[1], s[2]) + (s[3] - 1)
    IN  days * 1440 + s[4] * 60 + s[5]

\* the zone's offset from UTC in minutes at a local time (EET/EEST by month,
\* exact away from the two changeover weekends)
UtcOffset(tz, s) ==
    IF tz = "Europe/Helsinki"
    THEN (IF s[2] \in 4..10 THEN 180 ELSE 120)
    ELSE 0

\* timezone.localize(naive).astimezone(pytz.utc)
ToUtc(tz, s) == NaiveMinutes(s) - UtcOffset(tz, s)

----------------------------------------------------------------------------
(* The calendar provider *)

\* A calendar holds the events 1..total of the window, in provider order; the
\* server returns pages of at most pagecap events (None: as many as asked for).
SmallProviders == [total : 0..(MaxBatch + 1), pagecap : {1, 2, None}]
BigProviders ==
    [total : {GraphTop * k + d :
                 k \in (EnumerationCap \div GraphTop)..MaxBigPages, d \in {0, 1}},
     pagecap : {None}]

PageSize(top) ==
    IF provider.pagecap = None THEN top ELSE Min(provider.pagecap, top)

\* the events of page k of a listing that asks for pages of `top` events
Page(k, top) ==
    LET ps == PageSize(top)
        first == (k - 1) * ps
        n == Min(ps, provider.total - first)
    IN  [i \in 1..n |-> first + i]

\* the continuation cursor returned with page k (None: no further page)
NextCursor(k, top) ==
    IF k * PageSize(top) < provider.total THEN k + 1 ELSE None

\* all events of the window, in provider order
AllEvents == [i \in 1..provider.total |-> i]

----------------------------------------------------------------------------
(* Initial states: a command line, a calendar and a credential cache.  Big  *)
(* calendars are run with the nominal command line only.                   *)

NominalArgs ==
    [clean |-> FALSE, start |-> <<2023, 1, 1, 0, 0>>,
     end |-> <<2023, 1, 2, 0, 0>>, timezone |-> "UTC"]

Init ==
    /\ variant \in Variants
    /\ \/ /\ args \in ArgSets
          /\ provider \in SmallProviders
          /\ tokenFile \in BOOLEAN
       \/ /\ args = NominalArgs
          /\ provider \in BigProviders
          /\ tokenFile = TRUE
    /\ variant = "legacy" => ~args.clean      \* cleaner.py has no --clean
    /\ pc = "start"
    /\ exitCode = NoExit
    /\ timezone = NoTimezone
    /\ window = NoValue
    /\ events = << >>
    /\ next_link = None
    /\ tpc = << >>
    /\ sem = 0
    /\ waiters = << >>
    /\ seqIdx = 0
    /\ printed = EmptyBag
    /\ authCalls = 0
    /\ listCalls = 0
    /\ listWindows = {}
    /\ listErrors = 0
    /\ responses = EmptyBag
    /\ deleteReqs = EmptyBag
    /\ cacheCleared = FALSE

\* sys.exit(code), or an uncaught exception (code 1)
Exit(code) ==
    /\ pc' = "exit"
    /\ exitCode' = code

mainVars == <<pc, exitCode>>
inputVars == <<variant, args, provider>>
timeVars == <<timezone, window>>
fetchVars == <<events, next_link, listCalls, listWindows, listErrors>>
purgeVars == <<tpc, sem, waiters, seqIdx, printed, deleteReqs, responses>>

----------------------------------------------------------------------------
(* main(): the argument checks and --clean *)

\* msgraph_cleaner.main: --start and --end are required unless --clean
MsgraphCheckRequired ==
    /\ variant = "msgraph"
    /\ pc = "start"
    /\ IF ~args.clean /\ (Missing(args.start) \/ Missing(args.end))
       THEN Exit(1)
       ELSE pc' = "clean" /\ UNCHANGED exitCode
    /\ UNCHANGED <<inputVars, tokenFile, timeVars, fetchVars, purgeVars,
                   authCalls, cacheCleared>>

\* msgraph_cleaner.main: the --clean branch.  clean_cache is an instance
\* method called on the class with no instance: the call raises TypeError
\* before the body of clean_cache runs, and the run ends with status 1.
MsgraphClean ==
    /\ variant = "msgraph"
    /\ pc = "clean"
    /\ IF args.clean
       THEN Exit(1)
       ELSE pc' = "timezone" /\ UNCHANGED exitCode
    /\ UNCHANGED <<inputVars, tokenFile, timeVars, fetchVars, purgeVars,
                   authCalls, cacheCleared>>

\* google_cleaner.main: the --clean branch.  clean_token_cache removes
\* token.json (os.remove raises FileNotFoundError when it is absent); the
\* statement after it is the bare name sys.exit, which calls nothing, so
\* main goes on.
GoogleClean ==
    /\ variant = "google"
    /\ pc = "start"
    /\ IF args.clean
       THEN IF tokenFile
            THEN /\ tokenFile' = FALSE
                 /\ cacheCleared' = TRUE
                 /\ pc' = "required"
                 /\ UNCHANGED exitCode
            ELSE Exit(1) /\ UNCHANGED <<tokenFile, cacheCleared>>
       ELSE pc' = "required" /\ UNCHANGED <<exitCode, tokenFile, cacheCleared>>
    /\ UNCHANGED <<inputVars, timeVars, fetchVars, purgeVars, authCalls>>

\* google_cleaner.main: --start and --end are required
GoogleCheckRequired ==
    /\ variant = "google"
    /\ pc = "required"
    /\ IF Missing(args.start) \/ Missing(args.end)
       THEN Exit(1)
       ELSE pc' = "timezone" /\ UNCHANGED exitCode
    /\ UNCHANGED <<inputVars, tokenFile, timeVars, fetchVars, purgeVars,
                   authCalls, cacheCleared>>

\* cleaner.main: argparse with required=True for --start and --end; argparse
\* ends the process with status 2 on a usage error
LegacyParseArgs ==
    /\ variant = "legacy"
    /\ pc = "start"
    /\ IF args.start = NoValue \/ args.end = NoValue
       THEN Exit(2)
       ELSE pc' = "timezone" /\ UNCHANGED exitCode
    /\ UNCHANGED <<inputVars, tokenFile, timeVars, fetchVars, purgeVars,
                   authCalls, cacheCleared>>

----------------------------------------------------------------------------
(* main(): the time window *)

\* timezone = pytz.timezone(args.timezone), exit 1 on UnknownTimeZoneError
ParseTimezone ==
    /\ pc = "timezone"
    /\ IF args.timezone \in KnownTimezones
       THEN /\ timezone' = args.timezone
            /\ pc' = "times"
            /\ UNCHANGED exitCode
       ELSE Exit(1) /\ UNCHANGED timezone
    /\ UNCHANGED <<inputVars, tokenFile, window, fetchVars, purgeVars,
                   authCalls, cacheCleared>>

\* strptime of both strings, localize, astimezone(utc); exit 1 on ValueError
ParseTimes ==
    /\ pc = "times"
    /\ IF WellFormed(args.start) /\ WellFormed(args.end)
       THEN /\ window' = <<ToUtc(timezone, args.start), ToUtc(timezone, args.end)>>
            /\ pc' = "auth"
            /\ UNCHANGED exitCode
       ELSE Exit(1) /\ UNCHANGED window
    /\ UNCHANGED <<inputVars, tokenFile, timezone, fetchVars, purgeVars,
                   authCalls, cacheCleared>>

----------------------------------------------------------------------------
(* Authentication *)

\* CalendarCleaner.__init__ / GoogleCalendarCleaner.__init__ / the inline
\* token acquisition of cleaner.main: one exchange with the identity
\* service.  On success the credential cache is saved; on failure the
\* exception is not caught (legacy: sys.exit(1)) and the run ends with 1.
Authenticate ==
    /\ pc = "auth"
    /\ authCalls' = authCalls + 1
    /\ \E ok \in BOOLEAN :
          IF ok
          THEN /\ tokenFile' = TRUE
               /\ pc' = "fetch"
               /\ next_link' = (IF variant = "google" THEN None ELSE 1)
               /\ UNCHANGED exitCode
          ELSE Exit(1) /\ UNCHANGED <<tokenFile, next_link>>
    /\ UNCHANGED <<inputVars, timeVars, events, listCalls, listWindows,
                   listErrors, purgeVars, cacheCleared>>

----------------------------------------------------------------------------
(* Enumeration *)

\* a loop that follows the cursor with no cap
KeepFetching_nocap(link, evs) == link # None

\* the loop test of fetch_events: "while next_link:" and then
\* "if len(events) > 9500: break"
KeepFetching(link, evs) == link # None /\ ~(Len(evs) > EnumerationCap)

\* a listing whose status is never looked at
IsHttpError_never(status) == FALSE

\* response.raise_for_status() raises HTTPError for a 4xx or 5xx status
IsHttpError(status) == status >= 400

\* events.extend(data['value'])
Extend(evs, page) == evs \o page

\* CalendarCleaner.fetch_events / the loop of cleaner.main: one iteration
\* that passes the loop test.  requests.get, then raise_for_status: on an
\* HTTP error sys.exit(1); otherwise the page is appended and the cursor
\* replaced by @odata.nextLink.
FetchPage ==
    /\ variant \in {"msgraph", "legacy"}
    /\ pc = "fetch"
    /\ KeepFetching(next_link, events)
    /\ listCalls' = listCalls + 1
    /\ listWindows' = listWindows \cup {window}
    /\ \E status \in ListStatuses :
          /\ listErrors' = listErrors + (IF status >= 400 THEN 1 ELSE 0)
          /\ IF IsHttpError(status)
             THEN Exit(1) /\ UNCHANGED <<events, next_link>>
             ELSE /\ events' = Extend(events, Page(next_link, GraphTop))
                  /\ next_link' = NextCursor(next_link, GraphTop)
                  /\ UNCHANGED mainVars
    /\ UNCHANGED <<inputVars, tokenFile, timeVars, purgeVars, authCalls,
                   cacheCleared>>

\* the loop ends (no cursor, or the cap test breaks) and the batch is returned
FetchReturn ==
    /\ variant \in {"msgraph", "legacy"}
    /\ pc = "fetch"
    /\ ~KeepFetching(next_link, events)
    /\ pc' = "purge"
    /\ UNCHANGED <<exitCode, inputVars, tokenFile, timeVars, fetchVars,
                   purgeVars, authCalls, cacheCleared>>

\* GoogleCalendarCleaner.fetch_events: a single events().list(maxResults=2500)
\* call; the batch is its 'items', and nextPageToken is never read.
\* execute() raises HttpError on a non-success status, which nothing catches.
GoogleFetchEvents ==
    /\ variant = "google"
    /\ pc = "fetch"
    /\ listCalls' = listCalls + 1
    /\ listWindows' = listWindows \cup {window}
    /\ \E status \in ListStatuses :
          /\ listErrors' = listErrors + (IF status >= 400 THEN 1 ELSE 0)
          /\ IF IsHttpError(status)
             THEN Exit(1) /\ UNCHANGED events
             ELSE /\ events' = Page(1, GoogleMaxResults)
                  /\ pc' = "purge"
                  /\ UNCHANGED exitCode
    /\ UNCHANGED <<inputVars, tokenFile, timeVars, next_link, purgeVars,
                   authCalls, cacheCleared>>

----------------------------------------------------------------------------
(* Deletion *)

Task(at, status) == [at |-> at, status |-> status]

\* a gate that never closes
locked_never(value, ws) == FALSE

\* asyncio.Semaphore.locked(): no free slot, or somebody already waits
locked(value, ws) == value = 0 \/ ws # << >>

\* a slot given back only after a successful delete
ReleasesSlot_on_success(status) == status = NoContent

\* "async with semaphore:" releases the slot when the block is left, whatever
\* the status of the response was
ReleasesSlot(status) == TRUE

\* the line delete_event prints for a response: "Deleted event <id>" for 204
\* (nothing at all in google_cleaner, whose 204 branch is "pass"), and
\* "Could not delete event <id>: <status> <body>" otherwise
OutcomeLines(v, id, status) ==
    IF status = NoContent
    THEN (IF v = "google" THEN EmptyBag
          ELSE SetToBag({[kind |-> "Deleted", id |-> id, status |-> None]}))
    ELSE SetToBag({[kind |-> "Could not delete", id |-> id, status |-> status]})

\* delete_events: semaphore = asyncio.Semaphore(3), one delete_event task per
\* event of the batch, then gather.  (Batches above MaxBatch are not followed.)
StartPurge ==
    /\ pc = "purge"
    /\ Len(events) <= MaxBatch
    /\ sem' = SemaphoreSize
    /\ waiters' = << >>
    /\ tpc' = [i \in 1..Len(events) |-> Task("created", None)]
    /\ pc' = "gather"
    /\ UNCHANGED <<exitCode, inputVars, tokenFile, timeVars, fetchVars, seqIdx,
                   printed, deleteReqs, responses, authCalls, cacheCleared>>

\* a task runs to its first suspension, in creation order: it takes a slot
\* and issues its delete request, or queues behind the semaphore
TaskStart(i) ==
    /\ pc = "gather"
    /\ i \in DOMAIN tpc
    /\ tpc[i].at = "created"
    /\ \A j \in 1..(i - 1) : tpc[j].at # "created"
    /\ IF locked(sem, waiters)
       THEN /\ waiters' = Append(waiters, i)
            /\ tpc' = [tpc EXCEPT ![i] = Task("waiting", None)]
            /\ UNCHANGED <<sem, deleteReqs>>
       ELSE /\ sem' = sem - 1
            /\ tpc' = [tpc EXCEPT ![i] = Task("inflight", None)]
            /\ deleteReqs' = deleteReqs (+) SetToBag({events[i]})
            /\ UNCHANGED waiters
    /\ UNCHANGED <<mainVars, inputVars, tokenFile, timeVars, fetchVars, seqIdx,
                   printed, responses, authCalls, cacheCleared>>

\* a task woken by a release already owns its slot: it issues its request
TaskResume(i) ==
    /\ pc = "gather"
    /\ i \in DOMAIN tpc
    /\ tpc[i].at = "acquired"
    /\ tpc' = [tpc EXCEPT ![i] = Task("inflight", None)]
    /\ deleteReqs' = deleteReqs (+) SetToBag({events[i]})
    /\ UNCHANGED <<mainVars, inputVars, tokenFile, timeVars, fetchVars, sem,
                   waiters, seqIdx, printed, responses, authCalls, cacheCleared>>

\* the response arrives: the outcome line is printed, then asyncio.sleep.
\* (The event loop runs the first step of every task of the gather before it
\* looks at the network, so no response is seen while a task is unstarted.)
TaskResponse(i, status) ==
    /\ pc = "gather"
    /\ i \in DOMAIN tpc
    /\ tpc[i].at = "inflight"
    /\ \A j \in DOMAIN tpc : tpc[j].at # "created"
    /\ tpc' = [tpc EXCEPT ![i] = Task("sleeping", status)]
    /\ printed' = printed (+) OutcomeLines(variant, events[i], status)
    /\ responses' = responses (+) SetToBag({[id |-> events[i], status |-> status]})
    /\ UNCHANGED <<mainVars, inputVars, tokenFile, timeVars, fetchVars, sem,
                   waiters, seqIdx, deleteReqs, authCalls, cacheCleared>>

\* the sleep is over and the "async with semaphore" block is left:
\* Semaphore.release() hands the slot to the first waiter, or frees it
TaskRelease(i) ==
    /\ pc = "gather"
    /\ i \in DOMAIN tpc
    /\ tpc[i].at = "sleeping"
    /\ IF ~ReleasesSlot(tpc[i].status)
       THEN /\ tpc' = [tpc EXCEPT ![i] = Task("done", tpc[i].status)]
            /\ UNCHANGED <<sem, waiters>>
       ELSE IF waiters # << >>
       THEN /\ tpc' = [tpc EXCEPT ![i] = Task("done", tpc[i].status),
                                  ![Head(waiters)] = Task("acquired", None)]
            /\ waiters' = Tail(waiters)
            /\ UNCHANGED sem
       ELSE /\ tpc' = [tpc EXCEPT ![i] = Task("done", tpc[i].status)]
            /\ sem' = sem + 1
            /\ UNCHANGED waiters
    /\ UNCHANGED <<mainVars, inputVars, tokenFile, timeVars, fetchVars, seqIdx,
                   printed, responses, deleteReqs, authCalls, cacheCleared>>

\* asyncio.gather returns once every task has finished (at once for an empty
\* batch).  msgraph and google: main returns, exit status 0.  legacy: the
\* "for event in events" loop that follows the gather begins.
GatherDone ==
    /\ pc = "gather"
    /\ \A i \in DOMAIN tpc : tpc[i].at = "done"
    /\ IF variant = "legacy"
       THEN pc' = "loop" /\ seqIdx' = 1 /\ UNCHANGED exitCode
       ELSE Exit(0) /\ UNCHANGED seqIdx
    /\ UNCHANGED <<inputVars, tokenFile, timeVars, fetchVars, tpc, sem, waiters,
                   printed, responses, deleteReqs, authCalls, cacheCleared>>

\* cleaner.main, the loop after the gather: requests.delete for the event
\* (a blocking call), the outcome line, sleep
LegacyLoopDelete(status) ==
    /\ variant = "legacy"
    /\ pc = "loop"
    /\ seqIdx <= Len(events)
    /\ deleteReqs' = deleteReqs (+) SetToBag({events[seqIdx]})
    /\ responses' = responses (+) SetToBag({[id |-> events[seqIdx], status |-> status]})
    /\ printed' = printed (+) OutcomeLines(variant, events[seqIdx], status)
    /\ seqIdx' = seqIdx + 1
    /\ UNCHANGED <<mainVars, inputVars, tokenFile, timeVars, fetchVars, tpc, sem,
                   waiters, authCalls, cacheCleared>>

\* the loop is over: main returns, exit status 0
LegacyLoopDone ==
    /\ variant = "legacy"
    /\ pc = "loop"
    /\ seqIdx > Len(events)
    /\ Exit(0)
    /\ UNCHANGED <<inputVars, tokenFile, timeVars, fetchVars, purgeVars,
                   authCalls, cacheCleared>>

----------------------------------------------------------------------------

Next ==
    \/ MsgraphCheckRequired
    \/ MsgraphClean
    \/ GoogleClean
    \/ GoogleCheckRequired
    \/ LegacyParseArgs
    \/ ParseTimezone
    \/ ParseTimes
    \/ Authenticate
    \/ FetchPage
    \/ FetchReturn
    \/ GoogleFetchEvents
    \/ StartPurge
    \/ \E i \in 1..(MaxBatch + 1) : TaskStart(i)
    \/ \E i \in 1..(MaxBatch + 1) : TaskResume(i)
    \/ \E i \in 1..(MaxBatch + 1), status \in DeleteStatuses : TaskResponse(i, status)
    \/ \E i \in 1..(MaxBatch + 1) : TaskRelease(i)
    \/ GatherDone
    \/ \E status \in DeleteStatuses : LegacyLoopDelete(status)
    \/ LegacyLoopDone

Spec == Init /\ [][Next]_vars

\* a step of some deletion task
TaskStep ==
    \/ \E i \in 1..(MaxBatch + 1) : TaskStart(i)
    \/ \E i \in 1..(MaxBatch + 1) : TaskResume(i)
    \/ \E i \in 1..(MaxBatch + 1), status \in DeleteStatuses : TaskResponse(i, status)
    \/ \E i \in 1..(MaxBatch + 1) : TaskRelease(i)

\* runs of the nominal command line against the small calendars
InitLive ==
    /\ Init
    /\ args = NominalArgs
    /\ provider \in SmallProviders

\* The purge under the scheduling of the asyncio event loop: a task that can
\* take a step (it is ready, its response has arrived, its sleep is over)
\* is run, and the gather returns once every task has finished.
LiveSpec ==
    /\ InitLive
    /\ [][Next]_vars
    /\ WF_vars(TaskStep)
    /\ WF_vars(GatherDone)

----------------------------------------------------------------------------
(* Properties *)

RECURSIVE CopiesOf(_, _)
\* the number of elements of bag B, with multiplicity, that are in set S
CopiesOf(S, B) ==
    IF S = {} THEN 0
    ELSE LET x == CHOOSE y \in S : TRUE
         IN  CopiesIn(x, B) + CopiesOf(S \ {x}, B)

\* tasks whose delete request is issued and whose slot is not yet released
Outstanding == {i \in DOMAIN tpc : tpc[i].at \in {"inflight", "sleeping"}}
\* tasks that own a slot of the semaphore
SlotHolders == {i \in DOMAIN tpc : tpc[i].at \in {"acquired", "inflight", "sleeping"}}

NoNetworkCall == authCalls = 0 /\ listCalls = 0 /\ deleteReqs = EmptyBag

\* C1: at every moment of a purge, whatever the batch size and the order in
\* which responses arrive, at most 3 delete requests are issued and not yet
\* released.
C1_AtMostThreeOutstanding == Cardinality(Outstanding) <= 3

\* C1 witness: a batch larger than 3 with 3 requests outstanding and a task
\* queued behind the semaphore
C1_Witness ==
    /\ Len(events) > 3
    /\ Cardinality(Outstanding) = 3
    /\ waiters # << >>

\* C2 as stated: the batch never holds more than 9500 events.
C2_NeverMoreThanCap == Len(events) <= 9500

\* C2 amended: a listing request is made only while the accumulator holds at
\* most 9500 events (the loop stops once the count exceeds 9500), so with
\* pages of at most 500 events the batch never holds more than 10000.
C2_StopsOnceCapExceeded ==
    [][listCalls' > listCalls =>
         Len(events) <= 9500 /\ Len(events') <= 9500 + 500]_vars

\* C2 witness: enumeration has stopped with more than 9500 events while the
\* provider still offers a continuation cursor
C2_Witness ==
    /\ pc = "purge"
    /\ Len(events) > 9500
    /\ next_link # None

\* C3: once a listing request has returned a non-success status the run is
\* in the fatal state with exit code 1, no batch was handed to the purge and
\* no delete request was issued.
C3_ListingErrorIsFatal ==
    listErrors > 0 =>
        /\ pc = "exit"
        /\ exitCode = 1
        /\ tpc = << >>
        /\ deleteReqs = EmptyBag

\* C3 witness: a later page failed after an earlier page had been accumulated
C3_Witness ==
    /\ listErrors > 0
    /\ Len(events) > 0
    /\ pc = "exit"

DeletedLines == {l \in BagToSet(printed) : l.kind = "Deleted"}
FailedLines == {l \in BagToSet(printed) : l.kind = "Could not delete"}
deletedCount == CopiesOf(DeletedLines, printed)
failedCount == CopiesOf(FailedLines, printed)
Responses204 == {r \in BagToSet(responses) : r.status = 204}
ResponsesOther == {r \in BagToSet(responses) : r.status # 204}

\* C4: when the purge has completed, the number of "Deleted" outcomes equals
\* the number of events whose delete returned 204, the number of failure
\* outcomes equals the number whose delete returned another status, the two
\* sum to the batch size, and every failure outcome carries the identifier
\* and status of a response given for that event.
C4_ReportMatchesResponses ==
    exitCode = 0 =>
        /\ deletedCount = CopiesOf(Responses204, responses)
        /\ failedCount = CopiesOf(ResponsesOther, responses)
        /\ deletedCount + failedCount = Len(events)
        /\ \A l \in FailedLines :
              [id |-> l.id, status |-> l.status] \in BagToSet(responses)

\* C5: a failed delete never blocks or skips a sibling and never makes the
\* run fatal: a task waits only while 3 others own the slots, a run in which
\* a delete response was seen never ends with a non-zero code, and a run that
\* ended normally issued a delete request for every event of the batch.
C5_FailuresDoNotStopSiblings ==
    /\ waiters # << >> => Cardinality(SlotHolders) = 3
    /\ responses # EmptyBag => exitCode \in {NoExit, 0}
    /\ exitCode = 0 =>
          \A i \in 1..Len(events) : CopiesIn(events[i], deleteReqs) >= 1

\* C5 witness: a batch larger than 3 whose first delete failed, ended normally
C5_Witness ==
    /\ exitCode = 0
    /\ Len(events) > 3
    /\ \E r \in BagToSet(responses) : r.id = events[1] /\ r.status # 204
    /\ \E r \in BagToSet(responses) : r.id = events[Len(events)] /\ r.status = 204

\* C6: a run started with --clean makes no authentication, listing or delete
\* request, and ends with the credential cache file removed.
C6_CleanNeverPurges ==
    args.clean =>
        /\ NoNetworkCall
        /\ pc = "exit" => ~tokenFile

BadDate == <<2023, 13, 40, 99, 99>>
BadInput ==
    \/ args.start = BadDate
    \/ args.end = BadDate
    \/ args.timezone = "Mars/Olympus"

C8_WindowOrdered == \A w \in listWindows : w[1] <= w[2]

\* C9: when enumeration has returned and the calendar holds no more than
\* 9500 events, at least one listing request was made and the batch is all
\* the events of the window in provider order.
C9_BatchIsAllPages ==
    (pc \in {"purge", "gather", "loop"} /\ provider.total <= 9500) =>
        /\ listCalls >= 1
        /\ events = AllEvents

\* C10: no event identifier ever receives more than one delete request.
C10_SingleAttempt ==
    \A e \in BagToSet(deleteReqs) : CopiesIn(e, deleteReqs) <= 1

\* C11: during the gather every task whose request is issued owns a slot and
\* the free slots plus the owned ones number 3 (a slot is held from before
\* the request until after the response and the delay, on success and on
\* failure alike); and under fair scheduling of the tasks a purge that has
\* started ends with every task finished, a response recorded for every
\* event, nobody waiting and all 3 slots free.
C11_PurgeTerminatesSlotsFree ==
    /\ [](pc = "gather" =>
            /\ Outstanding \subseteq SlotHolders
            /\ sem + Cardinality(SlotHolders) = 3)
    /\ (pc = "gather") ~>
          (/\ pc \in {"exit", "loop"}
           /\ \A i \in DOMAIN tpc : tpc[i].at = "done"
           /\ \A i \in 1..Len(events) :
                 \E r \in BagToSet(responses) : r.id = events[i]
           /\ waiters = << >>
           /\ sem = 3)

\* C11 witness: a batch larger than 3 has been purged, with a failed and a
\* successful delete among its outcomes, and all 3 slots are free again
C11_Witness ==
    /\ pc \in {"exit", "loop"}
    /\ Len(events) > 3
    /\ \A i \in DOMAIN tpc : tpc[i].at = "done"
    /\ \E i \in DOMAIN tpc : tpc[i].status = 204
    /\ \E i \in DOMAIN tpc : tpc[i].status # 204
    /\ sem = 3

====
